---- MODULE Spec2Model ----
(***************************************************************************)
(* Model of the rail fence cipher (src/ciphers/rail_fence.py) and of the   *)
(* Process handler of the desktop front end (src/cipher_gui.py).           *)
(*                                                                         *)
(* A Python str is a sequence of one-character strings; Python's 0-based   *)
(* index k is position k + 1 of the sequence.  A call either returns a     *)
(* string or raises: both outcomes are values of the model.                *)
(***************************************************************************)
EXTENDS Integers, Sequences, FiniteSets, TLC

\* ------------------------------------------------------------------ bounds
MaxLen == 5
MaxRails == 3
MaxInput == 2

\* ------------------------------------------------------------------ inputs
\* A letter, the space that both operations strip, and the two characters
\* decrypt uses as placeholders in its fence.
Alphabet == {"A", " ", "*", "\n"}

RECURSIVE SeqsUpTo(_, _)
SeqsUpTo(S, n) ==
    IF n = 0 THEN {<<>>}
    ELSE LET shorter == SeqsUpTo(S, n - 1)
         IN shorter \cup {Append(s, ch) : s \in {t \in shorter : Len(t) = n - 1}, ch \in S}

ExamplePlain == <<"H", "E", "L", "L", "O", "W", "O", "R", "L", "D">>
ExampleCipher == <<"H", "O", "L", "E", "L", "W", "R", "D", "L", "O">>

Texts == SeqsUpTo(Alphabet, MaxLen) \cup {ExamplePlain, ExampleCipher}
RailCounts == -1..MaxRails

\* ------------------------------------------------------------- Python core
\* The message of an exception is a sequence of text fragments.
Return(s) == [kind |-> "return", value |-> s, error |-> "", message |-> <<>>]
Raise(e, m) == [kind |-> "raise", value |-> <<>>, error |-> e, message |-> m]
NoOutcome == [kind |-> "none", value |-> <<>>, error |-> "", message |-> <<>>]

\* list[k] raises IndexError unless -len <= k < len; a negative k counts
\* from the end.
ValidIndex(k, len) == -len <= k /\ k < len
Pos(k, len) == IF k >= 0 THEN k + 1 ELSE len + k + 1

\* str.replace(" ", ""): every U+0020 is dropped, the rest keeps its order.
StripSpaces(text) == SelectSeq(text, LAMBDA ch : ch # " ")

\* [[fill] * n for _ in range(rails)]: no rows when rails <= 0.
NewFence(rails, n, fill) == [i \in 1..rails |-> [j \in 1..n |-> fill]]

\* The cells a pass over range(rails) x range(n) visits: none when rails <= 0.
FenceCells(rails, n) == IF rails > 0 THEN rails * n ELSE 0

\* ----------------------------------------------------------------- encrypt
\* EncryptWrite turning one row above the bottom rail.
RECURSIVE EncryptWriteEarlyTurn(_, _, _)
EncryptWriteEarlyTurn(text, rails, k) ==
    IF k = 0
    THEN [fence |-> NewFence(rails, Len(text), ""), rail |-> 0, direction |-> 1,
          raised |-> FALSE]
    ELSE LET s == EncryptWriteEarlyTurn(text, rails, k - 1)
             col == k - 1
         IN IF s.raised THEN s
            ELSE IF ~ValidIndex(s.rail, Len(s.fence)) THEN [s EXCEPT !.raised = TRUE]
            ELSE LET row == Pos(s.rail, Len(s.fence))
                     direction == IF s.rail = 0 THEN 1
                                  ELSE IF s.rail = rails - 2 THEN -1
                                  ELSE s.direction
                 IN [fence |-> [s.fence EXCEPT ![row][col + 1] = text[col + 1]],
                     rail |-> s.rail + direction,
                     direction |-> direction,
                     raised |-> FALSE]

\* The state of encrypt's write loop after k iterations (k columns written):
\* rail is the row cursor the next column will use.
RECURSIVE EncryptWrite(_, _, _)
EncryptWrite(text, rails, k) ==
    IF k = 0
    THEN [fence |-> NewFence(rails, Len(text), ""), rail |-> 0, direction |-> 1,
          raised |-> FALSE]
    ELSE LET s == EncryptWrite(text, rails, k - 1)
             col == k - 1
         IN IF s.raised THEN s
            ELSE IF ~ValidIndex(s.rail, Len(s.fence)) THEN [s EXCEPT !.raised = TRUE]
            ELSE LET row == Pos(s.rail, Len(s.fence))
                     direction == IF s.rail = 0 THEN 1
                                  ELSE IF s.rail = rails - 1 THEN -1
                                  ELSE s.direction
                 IN [fence |-> [s.fence EXCEPT ![row][col + 1] = text[col + 1]],
                     rail |-> s.rail + direction,
                     direction |-> direction,
                     raised |-> FALSE]

\* EncryptRead with the inner loop one column short.
RECURSIVE EncryptReadShort(_, _, _)
EncryptReadShort(fence, n, k) ==
    IF k = 0 THEN <<>>
    ELSE LET result == EncryptReadShort(fence, n, k - 1)
             i == (k - 1) \div n
             j == (k - 1) % n
         IN IF fence[i + 1][j + 1] # "" /\ j < n - 1
            THEN Append(result, fence[i + 1][j + 1])
            ELSE result

\* EncryptRead taking the rows bottom to top.
RECURSIVE EncryptReadBottomUp(_, _, _)
EncryptReadBottomUp(fence, n, k) ==
    IF k = 0 THEN <<>>
    ELSE LET result == EncryptReadBottomUp(fence, n, k - 1)
             i == Len(fence) - 1 - ((k - 1) \div n)
             j == (k - 1) % n
         IN IF fence[i + 1][j + 1] # "" THEN Append(result, fence[i + 1][j + 1])
            ELSE result

\* The read-off after the first k cells in row-major order (i outer, j inner).
RECURSIVE EncryptRead(_, _, _)
EncryptRead(fence, n, k) ==
    IF k = 0 THEN <<>>
    ELSE LET result == EncryptRead(fence, n, k - 1)
             i == (k - 1) \div n
             j == (k - 1) % n
         IN IF fence[i + 1][j + 1] # "" THEN Append(result, fence[i + 1][j + 1])
            ELSE result

Encrypt(plaintext, rails) ==
    LET text == StripSpaces(plaintext)
        w == EncryptWrite(text, rails, Len(text))
    IN IF w.raised THEN Raise("IndexError", <<"list index out of range">>)
       ELSE Return(EncryptRead(w.fence, Len(text), FenceCells(rails, Len(text))))

\* ----------------------------------------------------------------- decrypt
\* The state of decrypt's marking loop after k iterations.
RECURSIVE DecryptMark(_, _, _)
DecryptMark(n, rails, k) ==
    IF k = 0
    THEN [fence |-> NewFence(rails, n, "\n"), rail |-> 0, direction |-> 1,
          raised |-> FALSE]
    ELSE LET s == DecryptMark(n, rails, k - 1)
             col == k - 1
         IN IF s.raised THEN s
            ELSE IF ~ValidIndex(s.rail, Len(s.fence)) THEN [s EXCEPT !.raised = TRUE]
            ELSE LET row == Pos(s.rail, Len(s.fence))
                     direction == IF s.rail = 0 THEN 1
                                  ELSE IF s.rail = rails - 1 THEN -1
                                  ELSE s.direction
                 IN [fence |-> [s.fence EXCEPT ![row][col + 1] = "*"],
                     rail |-> s.rail + direction,
                     direction |-> direction,
                     raised |-> FALSE]

\* DecryptFill stopping one character early.
RECURSIVE DecryptFillShort(_, _, _)
DecryptFillShort(ciphertext, marked, k) ==
    IF k = 0 THEN [fence |-> marked, index |-> 0]
    ELSE LET s == DecryptFillShort(ciphertext, marked, k - 1)
             i == (k - 1) \div Len(ciphertext)
             j == (k - 1) % Len(ciphertext)
         IN IF s.fence[i + 1][j + 1] = "*" /\ s.index < Len(ciphertext) - 1
            THEN [fence |-> [s.fence EXCEPT ![i + 1][j + 1] = ciphertext[s.index + 1]],
                  index |-> s.index + 1]
            ELSE s

\* The state of the fill pass after the first k cells in row-major order.
RECURSIVE DecryptFill(_, _, _)
DecryptFill(ciphertext, marked, k) ==
    IF k = 0 THEN [fence |-> marked, index |-> 0]
    ELSE LET s == DecryptFill(ciphertext, marked, k - 1)
             i == (k - 1) \div Len(ciphertext)
             j == (k - 1) % Len(ciphertext)
         IN IF s.fence[i + 1][j + 1] = "*" /\ s.index < Len(ciphertext)
            THEN [fence |-> [s.fence EXCEPT ![i + 1][j + 1] = ciphertext[s.index + 1]],
                  index |-> s.index + 1]
            ELSE s

\* DecryptRead turning one row above the bottom rail.
RECURSIVE DecryptReadEarlyTurn(_, _, _)
DecryptReadEarlyTurn(fence, rails, k) ==
    IF k = 0
    THEN [result |-> <<>>, rail |-> 0, direction |-> 1, raised |-> FALSE]
    ELSE LET s == DecryptReadEarlyTurn(fence, rails, k - 1)
             col == k - 1
         IN IF s.raised THEN s
            ELSE IF ~ValidIndex(s.rail, Len(fence)) THEN [s EXCEPT !.raised = TRUE]
            ELSE LET row == Pos(s.rail, Len(fence))
                     direction == IF s.rail = 0 THEN 1
                                  ELSE IF s.rail = rails - 2 THEN -1
                                  ELSE s.direction
                 IN [result |-> Append(s.result, fence[row][col + 1]),
                     rail |-> s.rail + direction,
                     direction |-> direction,
                     raised |-> FALSE]

\* The state of the read-back loop after k iterations.
RECURSIVE DecryptRead(_, _, _)
DecryptRead(fence, rails, k) ==
    IF k = 0
    THEN [result |-> <<>>, rail |-> 0, direction |-> 1, raised |-> FALSE]
    ELSE LET s == DecryptRead(fence, rails, k - 1)
             col == k - 1
         IN IF s.raised THEN s
            ELSE IF ~ValidIndex(s.rail, Len(fence)) THEN [s EXCEPT !.raised = TRUE]
            ELSE LET row == Pos(s.rail, Len(fence))
                     direction == IF s.rail = 0 THEN 1
                                  ELSE IF s.rail = rails - 1 THEN -1
                                  ELSE s.direction
                 IN [result |-> Append(s.result, fence[row][col + 1]),
                     rail |-> s.rail + direction,
                     direction |-> direction,
                     raised |-> FALSE]

Decrypt(text, rails) ==
    LET ciphertext == StripSpaces(text)
        n == Len(ciphertext)
        m == DecryptMark(n, rails, n)
        f == DecryptFill(ciphertext, m.fence, FenceCells(rails, n))
        r == DecryptRead(f.fence, rails, n)
    IN IF m.raised \/ r.raised THEN Raise("IndexError", <<"list index out of range">>)
       ELSE Return(r.result)

\* --------------------------------------------------------------- transform
DefaultEncrypt == TRUE

\* transform ignoring its flag.
TransformAlwaysEncrypt(text, rails, encrypt) == Encrypt(text, rails)

Transform(text, rails, encrypt) ==
    IF encrypt THEN Encrypt(text, rails) ELSE Decrypt(text, rails)

\* ------------------------------------------------- front end: conversions
\* str.strip(): whitespace is dropped at both ends.
Whitespace == {" ", "\n", "\t"}

RECURSIVE LStrip(_)
LStrip(s) == IF s # <<>> /\ Head(s) \in Whitespace THEN LStrip(Tail(s)) ELSE s

RECURSIVE RStrip(_)
RStrip(s) ==
    IF s # <<>> /\ s[Len(s)] \in Whitespace THEN RStrip(SubSeq(s, 1, Len(s) - 1)) ELSE s

PyStrip(s) == RStrip(LStrip(s))

\* Text.get("1.0", tk.END): the content and the newline tk ends it with.
TextGet(content) == Append(content, "\n")

\* int(key) on the characters a key of the model is made of: whitespace at
\* both ends is dropped, then an optional sign and one or more digits.
Digits == {"0", "1", "2", "3", "4", "5", "6", "7", "8", "9"}

DigitValue(d) ==
    CASE d = "0" -> 0 [] d = "1" -> 1 [] d = "2" -> 2 [] d = "3" -> 3 [] d = "4" -> 4
      [] d = "5" -> 5 [] d = "6" -> 6 [] d = "7" -> 7 [] d = "8" -> 8 [] d = "9" -> 9

Unsigned(s) == IF s # <<>> /\ Head(s) \in {"-", "+"} THEN Tail(s) ELSE s

IsInt(s) ==
    LET body == Unsigned(PyStrip(s))
    IN body # <<>> /\ \A p \in 1..Len(body) : body[p] \in Digits

RECURSIVE Decimal(_)
Decimal(ds) ==
    IF ds = <<>> THEN 0
    ELSE 10 * Decimal(SubSeq(ds, 1, Len(ds) - 1)) + DigitValue(ds[Len(ds)])

IntValue(s) ==
    LET t == PyStrip(s)
    IN IF Head(t) = "-" THEN -Decimal(Unsigned(t)) ELSE Decimal(Unsigned(t))

\* str.split(sep): the pieces between the separators.
RECURSIVE Split(_, _)
Split(s, sep) ==
    IF \A p \in 1..Len(s) : s[p] # sep THEN <<s>>
    ELSE LET p == CHOOSE q \in 1..Len(s) : s[q] = sep /\ \A o \in 1..(q - 1) : s[o] # sep
         IN <<SubSeq(s, 1, p - 1)>> \o Split(SubSeq(s, p + 1, Len(s)), sep)

\* cipher_var.get().lower().replace(" ", "") on the values of the combobox.
CipherValues ==
    {"Caesar", "Polyalphabetic", "Rail Fence", "Substitution", "Transposition", "Affine"}

CipherName(value) ==
    CASE value = "Caesar" -> "caesar"
      [] value = "Polyalphabetic" -> "polyalphabetic"
      [] value = "Rail Fence" -> "railfence"
      [] value = "Substitution" -> "substitution"
      [] value = "Transposition" -> "transposition"
      [] value = "Affine" -> "affine"

CipherMap ==
    {"caesar", "polyalphabetic", "railfence", "substitution", "transposition", "affine"}

\* --------------------------------------------------- front end: the inputs
GuiAlphabet == {"A", "B", " "}
GuiTexts == SeqsUpTo(GuiAlphabet, MaxInput)
GuiKeys == {<<>>, <<"2">>, <<"-", "1">>, <<"x">>, <<"1", ",", "2">>}

\* --------------------------------------------- front end: process_cipher
RECURSIVE Reverse(_)
Reverse(s) == IF s = <<>> THEN <<>> ELSE Append(Reverse(Tail(s)), Head(s))

\* The five ciphers whose classes are not in the source tree: a call returns
\* a transformed string or signals an error, a ValueError or another one.
ExternalCipher(txt) ==
    {Return(txt), Return(Reverse(txt)),
     Raise("ValueError", <<"invalid key">>), Raise("TypeError", <<"invalid key type">>)}

\* try: ... except ValueError: raise ValueError(message)
ExceptValueError(out, message) ==
    IF out.kind = "raise" /\ out.error = "ValueError" THEN Raise("ValueError", message)
    ELSE out

RailFenceMessage == <<"Rail Fence cipher requires a numeric key (number of rails)">>
CaesarMessage == <<"Caesar cipher requires a numeric key (shift value)">>
AffineMessage == <<"Affine cipher requires key in format 'a,b' (e.g., '5,8')">>

\* The outcomes process_cipher can have.
ProcessCipher(cipher_name, txt, key, encrypt) ==
    IF cipher_name \notin CipherMap
    THEN {Raise("ValueError", <<"Unknown cipher: ", cipher_name>>)}
    ELSE IF cipher_name = "railfence"
    THEN IF ~IsInt(key) THEN {Raise("ValueError", RailFenceMessage)}
         ELSE {ExceptValueError(Transform(txt, IntValue(key), encrypt), RailFenceMessage)}
    ELSE IF cipher_name = "caesar"
    THEN IF ~IsInt(key) THEN {Raise("ValueError", CaesarMessage)}
         ELSE {ExceptValueError(out, CaesarMessage) : out \in ExternalCipher(txt)}
    ELSE IF cipher_name = "affine"
    THEN LET parts == Split(key, ",")
         IN IF Len(parts) # 2 \/ \E p \in 1..Len(parts) : ~IsInt(parts[p])
            THEN {Raise("ValueError", AffineMessage)}
            ELSE {ExceptValueError(out, AffineMessage) : out \in ExternalCipher(txt)}
    ELSE ExternalCipher(txt)

\* ------------------------------------------------------------------- state
VARIABLES
    text,           \* the text argument of the call
    rails,          \* the rails argument of the call
    flag,           \* transform's third argument: "True", "False" or "omitted"
    called,         \* the function called: "none", "encrypt", "decrypt", "transform"
    outcome,        \* what the call returned or raised
    back,           \* the outcome of the opposite operation on the returned string
    cipher_var,     \* the value of the cipher combobox
    key_var,        \* the content of the key entry
    input_text,     \* the content of the input text area
    operation_var,  \* the radio buttons: "encrypt" or "decrypt"
    result_text,    \* the content of the result text area
    status_var,     \* the status bar, a sequence of text fragments
    event           \* how the last event ended: "none", "edit", "warning",
                    \* "returned" or "error"

vars == <<text, rails, flag, called, outcome, back>>
gui == <<cipher_var, key_var, input_text, operation_var, result_text, status_var, event>>

\* CipherToolGUI.__init__: the widgets as create_widgets leaves them.
GuiInit ==
    /\ cipher_var = "Caesar"
    /\ key_var = <<>>
    /\ input_text = <<>>
    /\ operation_var = "encrypt"
    /\ result_text = <<>>
    /\ status_var = <<"Ready">>
    /\ event = "none"

\* ---------------------------------------------------- the cipher, called
Init ==
    /\ text \in Texts
    /\ rails \in RailCounts
    /\ flag = "omitted"
    /\ called = "none"
    /\ outcome = NoOutcome
    /\ back = NoOutcome
    /\ GuiInit

CallEncrypt ==
    /\ called = "none"
    /\ called' = "encrypt"
    /\ outcome' = Encrypt(text, rails)
    /\ UNCHANGED <<text, rails, flag, back>>
    /\ UNCHANGED gui

CallDecrypt ==
    /\ called = "none"
    /\ called' = "decrypt"
    /\ outcome' = Decrypt(text, rails)
    /\ UNCHANGED <<text, rails, flag, back>>
    /\ UNCHANGED gui

CallTransform ==
    /\ called = "none"
    /\ called' = "transform"
    /\ \E f \in {"True", "False", "omitted"} :
        /\ flag' = f
        /\ outcome' = IF f = "omitted" THEN Transform(text, rails, DefaultEncrypt)
                      ELSE Transform(text, rails, f = "True")
    /\ UNCHANGED <<text, rails, back>>
    /\ UNCHANGED gui

\* The second leg of a round trip: the returned string goes through the
\* opposite operation with the same rails.
CallBack ==
    /\ called \in {"encrypt", "decrypt"}
    /\ outcome.kind = "return"
    /\ back = NoOutcome
    /\ back' = IF called = "encrypt" THEN Decrypt(outcome.value, rails)
               ELSE Encrypt(outcome.value, rails)
    /\ UNCHANGED <<text, rails, flag, called, outcome>>
    /\ UNCHANGED gui

Next == CallEncrypt \/ CallDecrypt \/ CallTransform \/ CallBack

Spec == Init /\ [][Next]_<<vars, gui>>

\* ------------------------------------------------------- the front end
NoCall ==
    /\ text = <<>>
    /\ rails = 0
    /\ flag = "omitted"
    /\ called = "none"
    /\ outcome = NoOutcome
    /\ back = NoOutcome

\* The user picks a cipher, types a key or a text, picks an operation.
SelectCipher ==
    /\ \E value \in CipherValues : cipher_var' = value
    /\ event' = "edit"
    /\ UNCHANGED <<key_var, input_text, operation_var, result_text, status_var>>
    /\ UNCHANGED vars

TypeKey ==
    /\ \E key \in GuiKeys : key_var' = key
    /\ event' = "edit"
    /\ UNCHANGED <<cipher_var, input_text, operation_var, result_text, status_var>>
    /\ UNCHANGED vars

TypeInput ==
    /\ \E txt \in GuiTexts : input_text' = txt
    /\ event' = "edit"
    /\ UNCHANGED <<cipher_var, key_var, operation_var, result_text, status_var>>
    /\ UNCHANGED vars

SelectOperation ==
    /\ \E operation \in {"encrypt", "decrypt"} : operation_var' = operation
    /\ event' = "edit"
    /\ UNCHANGED <<cipher_var, key_var, input_text, result_text, status_var>>
    /\ UNCHANGED vars

\* process_text with the result area emptied before the cipher is called.
process_text_ClearFirst ==
    LET cipher_name == CipherName(cipher_var)
        key == key_var
        txt == PyStrip(TextGet(input_text))
        encrypt == operation_var = "encrypt"
    IN /\ IF txt = <<>> \/ key = <<>>
          THEN /\ event' = "warning"
               /\ UNCHANGED <<result_text, status_var>>
          ELSE \E out \in ProcessCipher(cipher_name, txt, key, encrypt) :
                 IF out.kind = "return"
                 THEN /\ result_text' = out.value
                      /\ status_var' = <<IF encrypt THEN "Encryption" ELSE "Decryption",
                                         " complete.">>
                      /\ event' = "returned"
                 ELSE /\ result_text' = <<>>
                      /\ status_var' = <<"Error: ">> \o out.message
                      /\ event' = "error"
       /\ UNCHANGED <<cipher_var, key_var, input_text, operation_var>>
       /\ UNCHANGED vars

\* The Process button.
process_text ==
    LET cipher_name == CipherName(cipher_var)
        key == key_var
        txt == PyStrip(TextGet(input_text))
        encrypt == operation_var = "encrypt"
    IN /\ IF txt = <<>>
          THEN /\ event' = "warning"
               /\ UNCHANGED <<result_text, status_var>>
          ELSE IF key = <<>>
          THEN /\ event' = "warning"
               /\ UNCHANGED <<result_text, status_var>>
          ELSE \E out \in ProcessCipher(cipher_name, txt, key, encrypt) :
                 IF out.kind = "return"
                 THEN /\ result_text' = out.value
                      /\ status_var' = <<IF encrypt THEN "Encryption" ELSE "Decryption",
                                         " complete.">>
                      /\ event' = "returned"
                 ELSE /\ result_text' = result_text
                      /\ status_var' = <<"Error: ">> \o out.message
                      /\ event' = "error"
       /\ UNCHANGED <<cipher_var, key_var, input_text, operation_var>>
       /\ UNCHANGED vars

GuiNext == SelectCipher \/ TypeKey \/ TypeInput \/ SelectOperation \/ process_text

GuiStart == NoCall /\ GuiInit

GuiSpec == GuiStart /\ [][GuiNext]_<<vars, gui>>

\* ---------------------------------------------------------------- notions
Stripped == StripSpaces(text)
Count(ch, s) == Cardinality({p \in 1..Len(s) : s[p] = ch})
Chars(s) == {s[p] : p \in 1..Len(s)}
SameMultiset(a, b) ==
    /\ Len(a) = Len(b)
    /\ \A ch \in Chars(a) \cup Chars(b) : Count(ch, a) = Count(ch, b)
Abs(x) == IF x < 0 THEN -x ELSE x

\* The triangle wave in closed form, for r >= 2.
Row(c, r) ==
    LET m == c % (2 * (r - 1))
    IN IF m < r THEN m ELSE 2 * (r - 1) - m

\* The errors the design names for a key that is not acceptable.
InvalidKeyErrors == {"InvalidKeyFormat", "InvalidKeyValue", "ValueError"}

\* -------------------------------------------------------------- properties
\* C1: for every rails >= 1 and every text, encrypt returns a string and
\* decrypting that string with the same rails returns the text with its
\* spaces removed.
C1_RoundTripFromOneRail ==
    (called = "encrypt" /\ rails >= 1) =>
        /\ outcome.kind = "return"
        /\ back # NoOutcome => back = Return(Stripped)

\* C2: with one rail, encrypt returns the text with its spaces removed,
\* whatever the length of the text.
C2_OneRailIdentity ==
    (called = "encrypt" /\ rails = 1) => outcome = Return(Stripped)

\* C3: with rails <= 0, encrypt and decrypt never return a string and never
\* fail with an unrelated runtime fault: they raise a named invalid-key error,
\* for the empty text too.
C3_InvalidRailsRejected ==
    (called \in {"encrypt", "decrypt"} /\ rails <= 0) =>
        /\ outcome.kind = "raise"
        /\ outcome.error \in InvalidKeyErrors

\* C4: whenever encrypt returns a string, the string has the length and the
\* multiset of characters of the text without its spaces, and holds no space.
C4_EncryptPermutes ==
    (called = "encrypt" /\ outcome.kind = "return") =>
        /\ SameMultiset(outcome.value, Stripped)
        /\ " " \notin Chars(outcome.value)

C4_Witness ==
    /\ called = "encrypt"
    /\ outcome.kind = "return"
    /\ " " \in Chars(text)
    /\ Len(Stripped) >= 3
    /\ outcome.value # Stripped

\* C5: encrypt("HELLOWORLD", 3) returns "HOLELWRDLO" and
\* decrypt("HOLELWRDLO", 3) returns "HELLOWORLD".
C5_ExampleVector ==
    /\ (called = "encrypt" /\ text = ExamplePlain /\ rails = 3) =>
           outcome = Return(ExampleCipher)
    /\ (called = "decrypt" /\ text = ExampleCipher /\ rails = 3) =>
           outcome = Return(ExamplePlain)
    /\ (called = "encrypt" /\ text = ExamplePlain /\ rails = 3 /\ back # NoOutcome) =>
           back = Return(ExamplePlain)

C5_Witness ==
    /\ called = "encrypt"
    /\ text = ExamplePlain
    /\ rails = 3
    /\ outcome = Return(ExampleCipher)
    /\ back = Return(ExamplePlain)

\* C6: transform with the flag True, or with the flag omitted, has the outcome
\* of encrypt on the same arguments; with the flag False it has the outcome of
\* decrypt.
C6_TransformSelects ==
    called = "transform" =>
        outcome = IF flag \in {"True", "omitted"} THEN Encrypt(text, rails)
                  ELSE Decrypt(text, rails)

C6_Witness ==
    /\ called = "transform"
    /\ flag = "False"
    /\ outcome.kind = "return"
    /\ outcome = Decrypt(text, rails)
    /\ outcome # Encrypt(text, rails)

\* C7: for rails >= 2, at every column c of the text the row cursor of
\* encrypt's write walk, of decrypt's marking walk and of decrypt's read-back
\* walk is the same row Row(c, rails); it lies in 0..rails-1, is 0 at column 0,
\* moves by exactly one row per column, leaves row 0 downwards and row rails-1
\* upwards, and from column 1 on its movement reverses exactly at those rows.
C7_TriangleWave ==
    (called # "none" /\ rails >= 2) =>
        LET n == Len(Stripped)
            m == DecryptMark(n, rails, n)
            f == DecryptFill(Stripped, m.fence, FenceCells(rails, n))
        IN \A c \in 0..(n - 1) :
            LET w == EncryptWrite(Stripped, rails, c)
                w1 == EncryptWrite(Stripped, rails, c + 1)
                k == DecryptMark(n, rails, c)
                k1 == DecryptMark(n, rails, c + 1)
                r == DecryptRead(f.fence, rails, c)
                r1 == DecryptRead(f.fence, rails, c + 1)
            IN /\ ~w1.raised /\ ~k1.raised /\ ~r1.raised
               /\ w.rail = Row(c, rails)
               /\ k.rail = w.rail /\ r.rail = w.rail
               /\ k1.rail = w1.rail /\ r1.rail = w1.rail
               /\ k1.direction = w1.direction /\ r1.direction = w1.direction
               /\ w.rail \in 0..(rails - 1)
               /\ c = 0 => w.rail = 0
               /\ Abs(w1.rail - w.rail) = 1
               /\ w1.rail - w.rail = w1.direction
               /\ w.rail = 0 => w1.direction = 1
               /\ w.rail = rails - 1 => w1.direction = -1
               /\ c >= 1 => ((w1.direction # w.direction) <=> w.rail \in {0, rails - 1})

C7_Witness ==
    /\ called = "decrypt"
    /\ rails = 3
    /\ text = ExampleCipher
    /\ outcome.kind = "return"
    /\ DecryptRead(DecryptFill(Stripped, DecryptMark(10, 3, 10).fence, 30).fence, 3, 6).rail = 2
    /\ EncryptWrite(Stripped, 3, 8).rail = 0

\* C8: for rails >= 2, encrypt and decrypt are inverse permutations of the
\* strings without spaces: decrypt after encrypt and encrypt after decrypt
\* return the string; decrypt marks exactly len(c) cells, its fill pass uses
\* every character of c exactly once and leaves no marked cell unfilled, and
\* its result has exactly the characters of c (no placeholder of its own).
C8_InversePermutations ==
    (rails >= 2 /\ called \in {"encrypt", "decrypt"}) =>
        LET n == Len(Stripped)
            m == DecryptMark(n, rails, n)
            f == DecryptFill(Stripped, m.fence, FenceCells(rails, n))
            markedCells == {<<i, j>> \in (1..rails) \X (1..n) : m.fence[i][j] = "*"}
        IN /\ outcome.kind = "return"
           /\ back # NoOutcome => back = Return(Stripped)
           /\ called = "decrypt" =>
                /\ Cardinality(markedCells) = n
                /\ f.index = n
                /\ \A i \in 1..rails, j \in 1..n :
                      f.fence[i][j] = IF <<i, j>> \in markedCells
                                      THEN Stripped[Cardinality({q \in markedCells :
                                               q[1] < i \/ (q[1] = i /\ q[2] <= j)})]
                                      ELSE "\n"
                /\ SameMultiset(outcome.value, Stripped)

C8_Witness ==
    /\ called = "decrypt"
    /\ rails >= 2
    /\ text = Stripped
    /\ {"*", "\n", "A"} \subseteq Chars(text)
    /\ outcome.kind = "return"
    /\ outcome.value # text
    /\ back = Return(text)

\* C9: for rails >= 2 and a text of at most rails characters once its spaces
\* are removed, encrypt and decrypt both return that text unchanged (the empty
\* string for the empty text).
C9_FewCharactersIdentity ==
    (rails >= 2 /\ Len(Stripped) <= rails /\ called \in {"encrypt", "decrypt"}) =>
        outcome = Return(Stripped)

C9_Witness ==
    /\ rails >= 2
    /\ Len(Stripped) = rails
    /\ " " \in Chars(text)
    /\ Cardinality(Chars(Stripped)) >= 2
    /\ called = "decrypt"
    /\ outcome = Return(Stripped)

\* C10: the result area is empty at the start and changes only in a Process
\* event whose cipher call returned a string, to that string.  A Process event
\* with blank input text or an empty key ends at its warning and leaves the
\* result area and the status as they were; one whose cipher call raises leaves
\* the result area as it was and sets the status to "Error: " and the message.
C10_ResultOnSuccessOnly ==
    /\ result_text = <<>>
    /\ [][LET txt == PyStrip(TextGet(input_text))
              outs == ProcessCipher(CipherName(cipher_var), txt, key_var,
                                    operation_var = "encrypt")
          IN IF event' \in {"warning", "returned", "error"}
             THEN IF txt = <<>> \/ key_var = <<>>
                  THEN /\ event' = "warning"
                       /\ result_text' = result_text
                       /\ status_var' = status_var
                  ELSE \E out \in outs :
                         \/ /\ out.kind = "return"
                            /\ event' = "returned"
                            /\ result_text' = out.value
                         \/ /\ out.kind = "raise"
                            /\ event' = "error"
                            /\ result_text' = result_text
                            /\ status_var' = <<"Error: ">> \o out.message
             ELSE result_text' = result_text]_<<vars, gui>>

\* An error after a success: the result of the success is still shown.
C10_Witness ==
    /\ event = "error"
    /\ cipher_var = "Rail Fence"
    /\ key_var = <<"-", "1">>
    /\ status_var = <<"Error: ", "list index out of range">>
    /\ result_text # <<>>
    /\ result_text # StripSpaces(PyStrip(TextGet(input_text)))

====
